---- MODULE Spec2Model ----
(***************************************************************************)
(* Model of chunk_text (src/ingest.py): the splitting of per-page text     *)
(* into overlapping fixed-size chunks.  One call of chunk_text is one      *)
(* behaviour: Init fixes the arguments, the actions are the steps of the   *)
(* function body.                                                          *)
(***************************************************************************)
EXTENDS Integers, Sequences, FiniteSets

VARIABLES pages, chunk_size, overlap, source_path,
          pc, chunks, step, i, n, idx, starts, result

vars == <<pages, chunk_size, overlap, source_path,
          pc, chunks, step, i, n, idx, starts, result>>

\* ---------------------------------------------------------------- bounds
MaxLen == 11
MaxPages == 2
MaxChunk == 4

\* ---------------------------------------------------------------- inputs
\* Page texts.  chunk_text only slices by position and never looks at the
\* characters, so a text whose characters differ at every position shows
\* every misplaced slice.  starts records idx at each append (history).
Letters == <<"a", "b", "c", "d", "e", "f", "g", "h", "i", "j", "k", "l", "m">>

Text(len) == [p \in 1..len |-> Letters[((p - 1) % Len(Letters)) + 1]]

Texts == {Text(len) : len \in 0..MaxLen}

RECURSIVE PageLists(_)
PageLists(k) ==
    IF k = 0 THEN {<<>>}
    ELSE PageLists(k - 1) \cup
         {Append(ps, t) : ps \in {q \in PageLists(k - 1) : Len(q) = k - 1}, t \in Texts}

None == "<None>"

Sources == {None, "doc.pdf"}

\* ------------------------------------------------------- pure operators
\* lines 44 and 46: the two parameter checks
ChunkSizeInvalid(cs) == cs <= 0

\* faulty variant: lets overlap = chunk_size through
OverlapInvalidOffByOne(cs, ov) == ov < 0 \/ ov > cs

OverlapInvalid(cs, ov) == ov < 0 \/ ov >= cs

\* faulty variants of line 50: the overlap forgotten, one too little
StepNoOverlap(cs, ov) == cs

StepOneShort(cs, ov) == cs - ov - 1

\* line 50
Step(cs, ov) == cs - ov

Min(a, b) == IF a < b THEN a ELSE b

\* faulty variants of the slice: one character short, one character long
SliceDropLast(s, lo, hi) == SubSeq(s, Min(lo, Len(s)) + 1, Min(hi, Len(s)) - 1)

SliceInclusive(s, lo, hi) == SubSeq(s, Min(lo, Len(s)) + 1, Min(hi + 1, Len(s)))

\* line 55, Python's s[lo:hi] for 0 <= lo <= hi: both ends clamped to len(s)
Slice(s, lo, hi) == SubSeq(s, Min(lo, Len(s)) + 1, Min(hi, Len(s)))

\* str(k) of a non-negative int, as the f-string of line 61 formats it
Digit(d) == <<"0", "1", "2", "3", "4", "5", "6", "7", "8", "9">>[d + 1]

RECURSIVE ToStr(_)
ToStr(k) == IF k < 10 THEN <<Digit(k)>> ELSE ToStr(k \div 10) \o <<Digit(k % 10)>>

\* faulty variant: the page number left out of the id
ChunkIdNoPage(page, seq) == ToStr(seq)

\* line 61: f"{i}-{n}"
ChunkId(page, seq) == ToStr(page) \o <<"-">> \o ToStr(seq)

\* line 62: source_path or ""
SourceOrEmpty(sp) == IF sp = None \/ sp = "" THEN "" ELSE sp

\* faulty variant: stops one position early
WhileCondOffByOne(pos, page_text) == pos + 1 < Len(page_text)

\* line 54: the loop condition
WhileCond(pos, page_text) == pos < Len(page_text)

\* faulty variant: advances by one character instead of step
NextIdxByOne(pos, st) == pos + 1

\* line 66
NextIdx(pos, st) == pos + st

\* ---------------------------------------------------------------- state
Init ==
    /\ pages \in PageLists(MaxPages)
    /\ chunk_size \in (-1)..MaxChunk
    /\ overlap \in (-1)..MaxChunk
    /\ source_path \in Sources
    /\ pc = "validate"
    /\ chunks = <<>>
    /\ step = 0
    /\ i = 0
    /\ n = 0
    /\ idx = 0
    /\ starts = <<>>
    /\ result = <<>>

\* lines 44-50: validate, then create the list and compute step
Validate ==
    /\ pc = "validate"
    /\ IF ChunkSizeInvalid(chunk_size) \/ OverlapInvalid(chunk_size, overlap)
       THEN /\ pc' = "raised"
            /\ UNCHANGED <<chunks, step>>
       ELSE /\ pc' = "for"
            /\ chunks' = <<>>
            /\ step' = Step(chunk_size, overlap)
    /\ UNCHANGED <<pages, chunk_size, overlap, source_path, i, n, idx, starts, result>>

\* faulty variant: n is not reset at the start of a page
ForNextNoReset ==
    /\ pc = "for"
    /\ i < Len(pages)
    /\ i' = i + 1
    /\ idx' = 0
    /\ pc' = "while"
    /\ UNCHANGED <<pages, chunk_size, overlap, source_path, chunks, step, n, starts, result>>

\* lines 51-53: the for loop takes the next page
ForNext ==
    /\ pc = "for"
    /\ i < Len(pages)
    /\ i' = i + 1
    /\ n' = 0
    /\ idx' = 0
    /\ pc' = "while"
    /\ UNCHANGED <<pages, chunk_size, overlap, source_path, chunks, step, starts, result>>

\* lines 54-66: one iteration of the while loop
WhileBody ==
    /\ pc = "while"
    /\ WhileCond(idx, pages[i])
    /\ LET part == Slice(pages[i], idx, idx + chunk_size)
       IN  IF part = <<>>
           THEN /\ pc' = "for"
                /\ UNCHANGED <<chunks, starts, n, idx>>
           ELSE /\ chunks' = Append(chunks, [text |-> part,
                                             page |-> i,
                                             chunk_id |-> ChunkId(i, n),
                                             source |-> SourceOrEmpty(source_path)])
                /\ starts' = Append(starts, idx)
                /\ n' = n + 1
                /\ idx' = NextIdx(idx, step)
                /\ pc' = "while"
    /\ UNCHANGED <<pages, chunk_size, overlap, source_path, step, i, result>>

\* line 54: the loop condition is false, back to the for loop
WhileExit ==
    /\ pc = "while"
    /\ ~WhileCond(idx, pages[i])
    /\ pc' = "for"
    /\ UNCHANGED <<pages, chunk_size, overlap, source_path, chunks, step, i, n, idx, starts, result>>

\* line 67
Return ==
    /\ pc = "for"
    /\ i = Len(pages)
    /\ result' = chunks
    /\ pc' = "returned"
    /\ UNCHANGED <<pages, chunk_size, overlap, source_path, chunks, step, i, n, idx, starts>>

Next == Validate \/ ForNext \/ WhileBody \/ WhileExit \/ Return

Spec == Init /\ [][Next]_vars

\* chunk_text is synchronous and single-threaded: a step that can run, runs
FairSpec == Spec /\ WF_vars(Next)

\* ------------------------------------------------ vocabulary of the claims
\* the parameters the contract calls valid
ValidParams == chunk_size > 0 /\ 0 <= overlap /\ overlap < chunk_size

Returned == pc = "returned"

\* indices in the returned list of the records tagged with page p
RecordsOf(p) == {j \in 1..Len(result) : result[j].page = p}

Count(p) == Cardinality(RecordsOf(p))

\* consecutive records of one page
SamePagePair(j) == j + 1 <= Len(result) /\ result[j].page = result[j + 1].page

\* record j is the last record of its page
FinalOfPage(j) == \A k \in RecordsOf(result[j].page) : k <= j

\* the character positions (1-based) of its page that record j holds
Positions(j) == (starts[j] + 1)..(starts[j] + Len(result[j].text))

Shared(j, k) == Cardinality(Positions(j) \cap Positions(k))

\* ceil(a / b) for a >= 0, b > 0
CeilDiv(a, b) == (a + b - 1) \div b

RECURSIVE ConcatTexts(_, _)
ConcatTexts(p, j) ==
    IF j > Len(result) THEN <<>>
    ELSE (IF result[j].page = p THEN result[j].text ELSE <<>>) \o ConcatTexts(p, j + 1)

\* reading a chunk_id back: the decimal numbers left and right of the "-"
DigitVal(c) == CHOOSE d \in 0..9 : Digit(d) = c

RECURSIVE ParseInt(_)
ParseInt(ds) ==
    IF Len(ds) = 1 THEN DigitVal(ds[1])
    ELSE 10 * ParseInt(SubSeq(ds, 1, Len(ds) - 1)) + DigitVal(ds[Len(ds)])

WellFormedId(id) ==
    /\ Cardinality({d \in 1..Len(id) : id[d] = "-"}) = 1
    /\ id[1] # "-"
    /\ id[Len(id)] # "-"

ParseId(id) ==
    LET d == CHOOSE q \in 1..Len(id) : id[q] = "-"
    IN  <<ParseInt(SubSeq(id, 1, d - 1)), ParseInt(SubSeq(id, d + 1, Len(id)))>>

\* how many records of the same page come before record j
SeqNo(j) == Cardinality({k \in RecordsOf(result[j].page) : k < j})

\* ----------------------------------------------------------------- claims

\* C1: with chunk_size <= 0, overlap < 0 or overlap >= chunk_size the call
\* can only end in the error outcome, no record is ever appended and no list
\* is returned; with valid parameters the error outcome never happens.
C1_AllOrNothing ==
    /\ (chunk_size <= 0 \/ overlap < 0 \/ overlap >= chunk_size)
          => /\ pc \in {"validate", "raised"}
             /\ chunks = <<>>
             /\ result = <<>>
    /\ (chunk_size > 0 /\ 0 <= overlap /\ overlap < chunk_size) => pc # "raised"

C1_Witness ==
    /\ pc = "raised"
    /\ chunk_size > 0
    /\ overlap >= chunk_size
    /\ \E p \in 1..Len(pages) : Len(pages[p]) > 0

\* C2 as stated: a page of length L > 0 yields ceil((L - overlap) / (chunk_size
\* - overlap)) records when L > overlap, and 1 record otherwise.
C2_CountAsStated ==
    Returned =>
        \A p \in 1..Len(pages) :
            LET L == Len(pages[p])
            IN  L > 0 =>
                  Count(p) = IF L > overlap
                             THEN CeilDiv(L - overlap, chunk_size - overlap)
                             ELSE 1

\* C2 amended: a page of length L > 0 yields ceil(L / (chunk_size - overlap))
\* records, one per start position 0, step, 2*step, ... below L.
C2_Count ==
    Returned =>
        \A p \in 1..Len(pages) :
            Len(pages[p]) > 0 => Count(p) = CeilDiv(Len(pages[p]), chunk_size - overlap)

C2_Witness ==
    /\ Returned
    /\ overlap > 0
    /\ \E p \in 1..Len(pages) : Len(pages[p]) > overlap /\ Count(p) >= 3

\* C3: with overlap = 0 the texts of a page's records, concatenated in output
\* order, are the page text.
C3_ZeroOverlapReconstructs ==
    (Returned /\ overlap = 0) =>
        \A p \in 1..Len(pages) : ConcatTexts(p, 1) = pages[p]

C3_Witness ==
    /\ Returned
    /\ overlap = 0
    /\ \E j \in 1..Len(result) :
          /\ SamePagePair(j)
          /\ Len(result[j + 1].text) < chunk_size

\* C4 as stated: two consecutive records of a page share exactly overlap
\* positions unless the second one is the final record of the page.
C4_OverlapAsStated ==
    Returned =>
        \A j \in 1..Len(result) :
            (SamePagePair(j) /\ ~FinalOfPage(j + 1)) => Shared(j, j + 1) = overlap

\* C4 amended: two consecutive records of a page share exactly overlap
\* positions when the first has the full length chunk_size; when the first is
\* already cut short by the end of the page, the second lies wholly inside it.
C4_Overlap ==
    Returned =>
        \A j \in 1..Len(result) :
            SamePagePair(j) =>
                Shared(j, j + 1) = IF Len(result[j].text) = chunk_size
                                   THEN overlap
                                   ELSE Len(result[j + 1].text)

C4_Witness ==
    /\ Returned
    /\ overlap > 0
    /\ \E j \in 1..Len(result) :
          SamePagePair(j) /\ Len(result[j].text) = chunk_size
    /\ \E j \in 1..Len(result) :
          SamePagePair(j) /\ Len(result[j].text) < chunk_size /\ ~FinalOfPage(j + 1)

\* C5 as stated: every record's text has length <= chunk_size, and only the
\* final record of a page is shorter than chunk_size.
C5_LengthAsStated ==
    Returned =>
        \A j \in 1..Len(result) :
            /\ Len(result[j].text) <= chunk_size
            /\ Len(result[j].text) < chunk_size => FinalOfPage(j)

\* C5 amended: every record's text has length <= chunk_size, and a record is
\* shorter than chunk_size only if it ends at the last character of its page.
C5_Length ==
    Returned =>
        \A j \in 1..Len(result) :
            /\ Len(result[j].text) <= chunk_size
            /\ Len(result[j].text) < chunk_size
                  => starts[j] + Len(result[j].text) = Len(pages[result[j].page])

C5_Witness ==
    /\ Returned
    /\ \E j \in 1..Len(result) :
          /\ Len(result[j].text) < chunk_size
          /\ ~FinalOfPage(j)
    /\ \E j \in 1..Len(result) :
          /\ Len(result[j].text) = chunk_size
          /\ starts[j] + chunk_size < Len(pages[result[j].page])

\* C6 as stated: a non-empty page shorter than chunk_size yields exactly one
\* record, whose text is the whole page.
C6_ShortPageAsStated ==
    Returned =>
        \A p \in 1..Len(pages) :
            (0 < Len(pages[p]) /\ Len(pages[p]) < chunk_size) =>
                /\ Count(p) = 1
                /\ \A j \in RecordsOf(p) : result[j].text = pages[p]

\* C6 amended: the first record of a non-empty page shorter than chunk_size
\* is the whole page, and it is the page's only record exactly when the page
\* is no longer than chunk_size - overlap.
C6_ShortPage ==
    Returned =>
        \A p \in 1..Len(pages) :
            (0 < Len(pages[p]) /\ Len(pages[p]) < chunk_size) =>
                /\ \E j \in RecordsOf(p) : SeqNo(j) = 0 /\ result[j].text = pages[p]
                /\ Count(p) = 1 <=> Len(pages[p]) <= chunk_size - overlap

C6_Witness ==
    /\ Returned
    /\ overlap > 0
    /\ \E p \in 1..Len(pages) :
          0 < Len(pages[p]) /\ Len(pages[p]) < chunk_size /\ Count(p) = 1
    /\ \E p \in 1..Len(pages) :
          0 < Len(pages[p]) /\ Len(pages[p]) < chunk_size /\ Count(p) > 1

\* C7: no two records of the returned list have the same chunk_id; each
\* chunk_id reads "<page>-<sequence>", page the 1-based page position and
\* sequence the number of earlier records of the same page.
C7_UniqueIds ==
    Returned =>
        /\ \A j, k \in 1..Len(result) :
              j # k => result[j].chunk_id # result[k].chunk_id
        /\ \A j \in 1..Len(result) :
              /\ WellFormedId(result[j].chunk_id)
              /\ ParseId(result[j].chunk_id) = <<result[j].page, SeqNo(j)>>
              /\ result[j].page \in 1..Len(pages)

C7_Witness ==
    /\ Returned
    /\ \E j, k \in 1..Len(result) :
          result[j].page # result[k].page /\ SeqNo(j) = 1 /\ SeqNo(k) = 1
    /\ \E j \in 1..Len(result) : SeqNo(j) >= 10

\* the records one page contributes, as a function of its position p and its
\* text alone: sequence numbers 0, 1, 2, ... at start positions 0, step, ...
PageRecords(p, text) ==
    [k \in 1..CeilDiv(Len(text), chunk_size - overlap) |->
        LET from == (k - 1) * (chunk_size - overlap)
            to == IF from + chunk_size < Len(text) THEN from + chunk_size ELSE Len(text)
        IN  [text |-> [q \in 1..(to - from) |-> text[from + q]],
             page |-> p,
             chunk_id |-> ToStr(p) \o <<"-">> \o ToStr(k - 1),
             source |-> IF source_path = None THEN "" ELSE source_path]]

RECURSIVE ConcatPages(_)
ConcatPages(p) ==
    IF p > Len(pages) THEN <<>>
    ELSE PageRecords(p, pages[p]) \o ConcatPages(p + 1)

\* C8: the returned list is the concatenation, in page order, of each page's
\* own records, which depend only on the page's position and text; an empty
\* page contributes nothing and leaves the records of the other pages alone.
C8_PerPageConcatenation ==
    Returned =>
        /\ result = ConcatPages(1)
        /\ \A p \in 1..Len(pages) : pages[p] = <<>> => Count(p) = 0

C8_Witness ==
    /\ Returned
    /\ Len(pages) >= 2
    /\ pages[1] = <<>>
    /\ Count(2) >= 2

\* C9: with valid parameters the call returns; step = chunk_size - overlap is
\* at least 1 while the loops run, and every iteration of the while loop
\* moves idx strictly forward.
C9_Terminates ==
    /\ [](ValidParams => <>Returned)
    /\ [](pc \in {"for", "while"} => (step = chunk_size - overlap /\ step >= 1))
    /\ [][(pc = "while" /\ pc' = "while") => idx' > idx]_vars

C9_Witness ==
    /\ Returned
    /\ Len(pages) >= 2
    /\ \A p \in 1..Len(pages) : Count(p) >= 3

\* C10: every character position of a page lies inside a record of that
\* page, every record's text is non-empty and is the page text at the
\* positions it holds, and the last record of a non-empty page ends at the
\* page's last character.
C10_Coverage ==
    /\ \A j \in 1..Len(chunks) : chunks[j].text # <<>>
    /\ Returned =>
          /\ \A j \in 1..Len(result) :
                LET text == pages[result[j].page]
                IN  /\ starts[j] + Len(result[j].text) <= Len(text)
                    /\ result[j].text =
                          [q \in 1..Len(result[j].text) |-> text[starts[j] + q]]
                    /\ FinalOfPage(j) => starts[j] + Len(result[j].text) = Len(text)
          /\ \A p \in 1..Len(pages) :
                \A pos \in 1..Len(pages[p]) :
                    \E j \in RecordsOf(p) : pos \in Positions(j)

C10_Witness ==
    /\ Returned
    /\ overlap > 0
    /\ \E j \in 1..Len(result) :
          /\ SamePagePair(j)
          /\ FinalOfPage(j + 1)
          /\ Len(result[j + 1].text) < overlap
====
